---- MODULE Spec2Model ----
(***************************************************************************)
(* A model of the ORTF fixed-width record codec of src/cosette.py:         *)
(* LineRecord and its five subclasses, the RX_FORMATS schema tables and   *)
(* the ORTF document class.                                                *)
(*                                                                         *)
(* Python values are represented as follows.                               *)
(*   str        a sequence of one-character strings                        *)
(*   int        (a decoded numeric field, which may have 12 digits)        *)
(*              << "int" >> \o its decimal digits without leading zeros   *)
(*   None       the record None                                            *)
(*   an object  a record of its attributes                                 *)
(*   a call     [exc |-> "" or the name of the exception raised, ...]      *)
(* LineRecord.raw_record is written once and never read; it is left out    *)
(* of the objects.  Lists of records have value semantics: two entries of  *)
(* a list are never the same object.                                       *)
(***************************************************************************)
EXTENDS Integers, Sequences, FiniteSets, TLC

None == [isNone |-> TRUE]

Digits == {"0", "1", "2", "3", "4", "5", "6", "7", "8", "9"}

Digits19 == Digits \ {"0"}

\* the characters str.strip() removes (the ASCII ones)
Whitespace == {" ", "\t", "\n", "\r", "\f"}

DigitVal(c) ==
  CASE c = "0" -> 0 [] c = "1" -> 1 [] c = "2" -> 2 [] c = "3" -> 3
    [] c = "4" -> 4 [] c = "5" -> 5 [] c = "6" -> 6 [] c = "7" -> 7
    [] c = "8" -> 8 [] c = "9" -> 9

DigitChar(n) ==
  CASE n = 0 -> "0" [] n = 1 -> "1" [] n = 2 -> "2" [] n = 3 -> "3"
    [] n = 4 -> "4" [] n = 5 -> "5" [] n = 6 -> "6" [] n = 7 -> "7"
    [] n = 8 -> "8" [] n = 9 -> "9"

Min2(a, b) == IF a <= b THEN a ELSE b

Max2(a, b) == IF a >= b THEN a ELSE b

Repeat(c, n) == [i \in 1..n |-> c]

\* F applied to the value of v: v is evaluated once, however often F uses it
With(v, F(_)) == CHOOSE r \in {F(x) : x \in {v}} : TRUE

\* s[lo:hi] for 0 <= lo, 0 <= hi: Python clamps both ends to len(s)
Slice(s, lo, hi) == SubSeq(s, Min2(lo, Len(s)) + 1, Min2(hi, Len(s)))

\* s[lo:]
SliceFrom(s, lo) == SubSeq(s, Min2(lo, Len(s)) + 1, Len(s))

\* s.startswith(prefix)
startswith(s, prefix) ==
  Len(s) >= Len(prefix) /\ SubSeq(s, 1, Len(prefix)) = prefix

\* s.strip()
strip(str) ==
  With(str, LAMBDA s :
    IF \A i \in 1..Len(s) : s[i] \in Whitespace
      THEN << >>
      ELSE SubSeq(s,
                  CHOOSE i \in 1..Len(s) :
                    s[i] \notin Whitespace
                    /\ \A j \in 1..(i - 1) : s[j] \in Whitespace,
                  CHOOSE i \in 1..Len(s) :
                    s[i] \notin Whitespace
                    /\ \A j \in (i + 1)..Len(s) : s[j] \in Whitespace))

\* s.ljust(n)
ljust(s, n) == IF Len(s) >= n THEN s ELSE s \o Repeat(" ", n - Len(s))

\* s.isdecimal()
isdecimal(str) ==
  \E s \in {str} : s # << >> /\ \A i \in 1..Len(s) : s[i] \in Digits

\* the decimal digits of a natural number, as str(n) writes them
RECURSIVE NatStr(_)
NatStr(n) ==
  IF n < 10 THEN << DigitChar(n) >>
            ELSE NatStr(n \div 10) \o << DigitChar(n % 10) >>

\* f"{num:0{width}d}": the sign counts in the width, zeros go after it
ZeroPad(num, width) ==
  IF num >= 0
    THEN Repeat("0", width - Len(NatStr(num))) \o NatStr(num)
    ELSE << "-" >> \o Repeat("0", width - 1 - Len(NatStr(-num)))
                   \o NatStr(-num)

\* the value of a string of decimal digits (used for at most 8 digits)
RECURSIVE DigitsVal(_)
DigitsVal(s) ==
  IF s = << >> THEN 0
  ELSE 10 * DigitsVal(SubSeq(s, 1, Len(s) - 1)) + DigitVal(s[Len(s)])

\* int(field) for a field for which isdecimal() holds: Python ints are
\* unbounded, so the value is kept as its digits without leading zeros
PyInt(field) ==
  With(field, LAMBDA s :
    IF \A i \in 1..Len(s) : s[i] = "0"
      THEN << "int", "0" >>
      ELSE << "int" >>
             \o SubSeq(s, CHOOSE i \in 1..Len(s) :
                            s[i] # "0" /\ \A j \in 1..(i - 1) : s[j] = "0",
                       Len(s)))

IsPyInt(v) == v # << >> /\ v[1] = "int"

\* str(value) of a decoded field value
PyStr(v) == IF IsPyInt(v) THEN Tail(v) ELSE v

RX_FORMAT_20 ==
      ("RECORD TYPE" :> [id |-> "601-04", req |-> "M", field_type |-> "A/N", num_chars |-> 2, start |-> 1, end |-> 2])
   @@ ("CARDHOLDER ID" :> [id |-> "302-C2", req |-> "S", field_type |-> "A/N", num_chars |-> 20, start |-> 3, end |-> 22])
   @@ ("ALTERNATE ID NUMBER" :> [id |-> "724-ST", req |-> "S", field_type |-> "A/N", num_chars |-> 20, start |-> 23, end |-> 42])
   @@ ("CARDHOLDER LAST NAME" :> [id |-> "313-CD", req |-> "S", field_type |-> "A/N", num_chars |-> 35, start |-> 43, end |-> 77])
   @@ ("CARDHOLDER FIRST NAME" :> [id |-> "312-CC", req |-> "S", field_type |-> "A/N", num_chars |-> 35, start |-> 78, end |-> 112])
   @@ ("CARDHOLDER MIDDLE INITIAL" :> [id |-> "718-SZ", req |-> "S", field_type |-> "A/N", num_chars |-> 1, start |-> 113, end |-> 113])
   @@ ("PATIENT LAST NAME" :> [id |-> "311-CB", req |-> "M", field_type |-> "A/N", num_chars |-> 35, start |-> 114, end |-> 148])
   @@ ("PATIENT FIRST NAME" :> [id |-> "310-CA", req |-> "M", field_type |-> "A/N", num_chars |-> 35, start |-> 149, end |-> 183])
   @@ ("PATIENT MIDDLE INITIAL" :> [id |-> "718-SZ", req |-> "S", field_type |-> "A/N", num_chars |-> 1, start |-> 184, end |-> 184])
   @@ ("PATIENT RESIDENCE" :> [id |-> "384-4X", req |-> "S", field_type |-> "N", num_chars |-> 2, start |-> 185, end |-> 186])
   @@ ("PATIENT ADDRESS LINE 1" :> [id |-> "726-SR", req |-> "M", field_type |-> "A/N", num_chars |-> 30, start |-> 187, end |-> 216])
   @@ ("PATIENT ADDRESS LINE 2" :> [id |-> "727-SS", req |-> "S", field_type |-> "A/N", num_chars |-> 30, start |-> 217, end |-> 246])
   @@ ("PATIENT CITY" :> [id |-> "728-SU", req |-> "M", field_type |-> "A/N", num_chars |-> 20, start |-> 247, end |-> 266])
   @@ ("PATIENT STATE" :> [id |-> "729-TA", req |-> "M", field_type |-> "A/N", num_chars |-> 2, start |-> 267, end |-> 268])
   @@ ("PATIENT ZIP/POSTAL CODE" :> [id |-> "730-TC", req |-> "M", field_type |-> "A/N", num_chars |-> 15, start |-> 269, end |-> 283])
   @@ ("PATIENT TELEPHONE NUMBER QUALIFIER" :> [id |-> "629-SH", req |-> "S", field_type |-> "A/N", num_chars |-> 2, start |-> 284, end |-> 285])
   @@ ("PATIENT TELEPHONE NUMBER" :> [id |-> "732-TB", req |-> "S", field_type |-> "N", num_chars |-> 10, start |-> 286, end |-> 295])
   @@ ("PATIENT E-MAIL ADDRESS" :> [id |-> "350-HN", req |-> "S", field_type |-> "A/N", num_chars |-> 80, start |-> 296, end |-> 375])
   @@ ("DATE OF BIRTH" :> [id |-> "304-C4", req |-> "M", field_type |-> "N", num_chars |-> 8, start |-> 376, end |-> 383])
   @@ ("PATIENT GENDER CODE" :> [id |-> "305-C5", req |-> "M", field_type |-> "N", num_chars |-> 1, start |-> 384, end |-> 384])
   @@ ("PREGNANCY INDICATOR" :> [id |-> "335-2C", req |-> "S", field_type |-> "A/N", num_chars |-> 1, start |-> 385, end |-> 385])
   @@ ("SMOKER/NON-SMOKER CODE" :> [id |-> "334-1C", req |-> "S", field_type |-> "A/N", num_chars |-> 1, start |-> 386, end |-> 386])
   @@ ("EASY OPEN CAP INDICATOR" :> [id |-> "608-NF", req |-> "S", field_type |-> "A/N", num_chars |-> 1, start |-> 387, end |-> 387])
   @@ ("PRESCRIPTION/SERVICE REFERENCE NUMBER" :> [id |-> "402-D2", req |-> "M", field_type |-> "N", num_chars |-> 12, start |-> 388, end |-> 399])
   @@ ("DATE PRESCRIPTION WRITTEN" :> [id |-> "414-DE", req |-> "M", field_type |-> "N", num_chars |-> 8, start |-> 400, end |-> 407])
   @@ ("ORIGINALLY PRESCRIBED PRODUCT/SERVICE ID QUALIFIER" :> [id |-> "453-EJ", req |-> "M", field_type |-> "A/N", num_chars |-> 2, start |-> 408, end |-> 409])
   @@ ("ORIGINALLY PRESCRIBED PRODUCT/SERVICE CODE" :> [id |-> "445-EA", req |-> "M", field_type |-> "A/N", num_chars |-> 19, start |-> 410, end |-> 428])
   @@ ("COMPOUND CODE" :> [id |-> "406-D6", req |-> "M", field_type |-> "N", num_chars |-> 1, start |-> 429, end |-> 429])
   @@ ("PRESCRIBED DRUG DESCRIPTION" :> [id |-> "619-RW", req |-> "M", field_type |-> "A/N", num_chars |-> 60, start |-> 430, end |-> 489])
   @@ ("PRODUCT DOSAGE FORM" :> [id |-> "601-21", req |-> "M", field_type |-> "A/N", num_chars |-> 30, start |-> 490, end |-> 519])
   @@ ("PRODUCT STRENGTH" :> [id |-> "601-24", req |-> "M", field_type |-> "A/N", num_chars |-> 15, start |-> 520, end |-> 534])
   @@ ("DISPENSE AS WRITTEN (DAW)/PRODUCT SELECTION CODE" :> [id |-> "408-D8", req |-> "M", field_type |-> "A/N", num_chars |-> 1, start |-> 535, end |-> 535])
   @@ ("QUANTITY PRESCRIBED" :> [id |-> "460-ET", req |-> "M", field_type |-> "N", num_chars |-> 10, start |-> 536, end |-> 545])
   @@ ("NUMBER OF REFILLS AUTHORIZED" :> [id |-> "415-DF", req |-> "M", field_type |-> "N", num_chars |-> 2, start |-> 546, end |-> 547])
   @@ ("DAYS SUPPLY" :> [id |-> "405-D5", req |-> "M", field_type |-> "N", num_chars |-> 3, start |-> 548, end |-> 550])
   @@ ("PRODUCT/SERVICE ID QUALIFIER" :> [id |-> "426-E1", req |-> "M", field_type |-> "A/N", num_chars |-> 2, start |-> 551, end |-> 552])
   @@ ("PRODUCT/SERVICE ID" :> [id |-> "407-D7", req |-> "M", field_type |-> "A/N", num_chars |-> 19, start |-> 553, end |-> 571])
   @@ ("DRUG DESCRIPTION" :> [id |-> "516-FG", req |-> "M", field_type |-> "A/N", num_chars |-> 60, start |-> 572, end |-> 631])
   @@ ("LABEL DIRECTIONS" :> [id |-> "613-NM", req |-> "M", field_type |-> "A/N", num_chars |-> 200, start |-> 632, end |-> 831])
   @@ ("ORIGINAL DISPENSED DATE" :> [id |-> "617-RQ", req |-> "M", field_type |-> "N", num_chars |-> 8, start |-> 832, end |-> 839])
   @@ ("ORIGINAL DISPENSED QUANTITY" :> [id |-> "A44-ZL", req |-> "M", field_type |-> "N", num_chars |-> 10, start |-> 840, end |-> 849])
   @@ ("MOST RECENT DATE FILLED" :> [id |-> "614-NW", req |-> "M", field_type |-> "N", num_chars |-> 8, start |-> 850, end |-> 857])
   @@ ("QUANTITY DISPENSED TO DATE" :> [id |-> "623-SA", req |-> "M", field_type |-> "N", num_chars |-> 10, start |-> 858, end |-> 867])
   @@ ("REMAINING QUANTITY" :> [id |-> "625-SC", req |-> "M", field_type |-> "N", num_chars |-> 10, start |-> 868, end |-> 877])
   @@ ("NUMBER OF FILLS TO DATE" :> [id |-> "615-NY", req |-> "S", field_type |-> "N", num_chars |-> 2, start |-> 878, end |-> 879])
   @@ ("NUMBER OF FILLS REMAINING" :> [id |-> "616-PU", req |-> "M", field_type |-> "N", num_chars |-> 2, start |-> 880, end |-> 881])
   @@ ("DISCONTINUE DATE" :> [id |-> "607-ND", req |-> "S", field_type |-> "N", num_chars |-> 8, start |-> 884, end |-> 891])
   @@ ("INACTIVE PRESCRIPTION INDICATOR" :> [id |-> "612-NK", req |-> "M", field_type |-> "A/N", num_chars |-> 1, start |-> 892, end |-> 892])
   @@ ("TRANSFER FLAG" :> [id |-> "631-SK", req |-> "S", field_type |-> "A/N", num_chars |-> 1, start |-> 893, end |-> 893])
   @@ ("PRESCRIBER LAST NAME" :> [id |-> "716-SY", req |-> "M", field_type |-> "A/N", num_chars |-> 25, start |-> 894, end |-> 918])
   @@ ("PRESCRIBER FIRST NAME" :> [id |-> "717-SX", req |-> "M", field_type |-> "A/N", num_chars |-> 15, start |-> 919, end |-> 933])
   @@ ("PRESCRIBER ADDRESS LINE 1" :> [id |-> "726-SR", req |-> "M", field_type |-> "A/N", num_chars |-> 30, start |-> 934, end |-> 963])
   @@ ("PRESCRIBER ADDRESS LINE 2" :> [id |-> "727-SS", req |-> "S", field_type |-> "A/N", num_chars |-> 30, start |-> 964, end |-> 993])
   @@ ("PRESCRIBER CITY" :> [id |-> "728-SU", req |-> "M", field_type |-> "A/N", num_chars |-> 20, start |-> 994, end |-> 1013])
   @@ ("PRESCRIBER STATE" :> [id |-> "729-TA", req |-> "M", field_type |-> "A/N", num_chars |-> 2, start |-> 1014, end |-> 1015])
   @@ ("PRESCRIBER ZIP/POSTAL CODE" :> [id |-> "730-TC", req |-> "M", field_type |-> "A/N", num_chars |-> 15, start |-> 1016, end |-> 1030])
   @@ ("PRESCRIBER TELEPHONE NUMBER QUALIFIER" :> [id |-> "629-SH", req |-> "M", field_type |-> "A/N", num_chars |-> 2, start |-> 1031, end |-> 1032])
   @@ ("PRESCRIBER TELEPHONE NUMBER" :> [id |-> "732-TB", req |-> "M", field_type |-> "N", num_chars |-> 10, start |-> 1033, end |-> 1042])
   @@ ("PRESCRIBER ID (DEA)" :> [id |-> "411-DB", req |-> "S", field_type |-> "A/N", num_chars |-> 15, start |-> 1043, end |-> 1057])
   @@ ("PRESCRIBER ID QUALIFIER" :> [id |-> "466-EZ", req |-> "M", field_type |-> "A/N", num_chars |-> 2, start |-> 1058, end |-> 1059])
   @@ ("PRESCRIBER ID" :> [id |-> "411-DB", req |-> "M", field_type |-> "A/N", num_chars |-> 15, start |-> 1060, end |-> 1074])
   @@ ("ADDITIONAL MESSAGE INFORMATION" :> [id |-> "526-FQ", req |-> "S", field_type |-> "A/N", num_chars |-> 200, start |-> 1075, end |-> 1274])
   @@ ("PAYER ID QUALIFIER" :> [id |-> "568-J7", req |-> "S", field_type |-> "A/N", num_chars |-> 2, start |-> 1275, end |-> 1276])
   @@ ("PAYER ID" :> [id |-> "569-J8", req |-> "S", field_type |-> "A/N", num_chars |-> 10, start |-> 1277, end |-> 1286])
   @@ ("PROCESSOR CONTROL NUMBER" :> [id |-> "104-A4", req |-> "S", field_type |-> "A/N", num_chars |-> 10, start |-> 1287, end |-> 1296])
   @@ ("GROUP ID" :> [id |-> "301-C1", req |-> "S", field_type |-> "A/N", num_chars |-> 15, start |-> 1297, end |-> 1311])
   @@ ("PERSON CODE" :> [id |-> "303-C3", req |-> "S", field_type |-> "A/N", num_chars |-> 3, start |-> 1312, end |-> 1314])
   @@ ("PATIENT RELATIONSHIP CODE" :> [id |-> "306-C6", req |-> "S", field_type |-> "N", num_chars |-> 1, start |-> 1315, end |-> 1315])
   @@ ("FILLER" :> [id |-> "", req |-> "M", field_type |-> "A/N", num_chars |-> 285, start |-> 1316, end |-> 1600])

RX_FORMAT_33 ==
      ("RECORD TYPE" :> [id |-> "601-04", req |-> "M", field_type |-> "A/N", num_chars |-> 2, start |-> 1, end |-> 2])
   @@ ("CARDHOLDER ID" :> [id |-> "302-C2", req |-> "S", field_type |-> "A/N", num_chars |-> 20, start |-> 3, end |-> 22])
   @@ ("ALTERNATE ID NUMBER" :> [id |-> "724-ST", req |-> "S", field_type |-> "A/N", num_chars |-> 20, start |-> 23, end |-> 42])
   @@ ("CARDHOLDER LAST NAME" :> [id |-> "313-CD", req |-> "S", field_type |-> "A/N", num_chars |-> 35, start |-> 43, end |-> 77])
   @@ ("CARDHOLDER FIRST NAME" :> [id |-> "312-CC", req |-> "S", field_type |-> "A/N", num_chars |-> 35, start |-> 78, end |-> 112])
   @@ ("CARDHOLDER MIDDLE INITIAL" :> [id |-> "718-SZ", req |-> "S", field_type |-> "A/N", num_chars |-> 1, start |-> 113, end |-> 113])
   @@ ("PATIENT LAST NAME" :> [id |-> "311-CB", req |-> "M", field_type |-> "A/N", num_chars |-> 35, start |-> 114, end |-> 148])
   @@ ("PATIENT FIRST NAME" :> [id |-> "310-CA", req |-> "M", field_type |-> "A/N", num_chars |-> 35, start |-> 149, end |-> 183])
   @@ ("PATIENT MIDDLE INITIAL" :> [id |-> "718-SZ", req |-> "S", field_type |-> "A/N", num_chars |-> 1, start |-> 184, end |-> 184])
   @@ ("PATIENT RESIDENCE" :> [id |-> "384-4X", req |-> "S", field_type |-> "N", num_chars |-> 2, start |-> 185, end |-> 186])
   @@ ("PATIENT ADDRESS LINE 1" :> [id |-> "726-SR", req |-> "M", field_type |-> "A/N", num_chars |-> 40, start |-> 187, end |-> 226])
   @@ ("PATIENT ADDRESS LINE 2" :> [id |-> "727-SS", req |-> "S", field_type |-> "A/N", num_chars |-> 40, start |-> 227, end |-> 266])
   @@ ("PATIENT CITY" :> [id |-> "728-SU", req |-> "M", field_type |-> "A/N", num_chars |-> 20, start |-> 267, end |-> 286])
   @@ ("PATIENT STATE" :> [id |-> "729-TA", req |-> "M", field_type |-> "A/N", num_chars |-> 2, start |-> 287, end |-> 288])
   @@ ("PATIENT ZIP/POSTAL CODE" :> [id |-> "730-TC", req |-> "M", field_type |-> "A/N", num_chars |-> 15, start |-> 289, end |-> 303])
   @@ ("PATIENT ENTITY COUNTRY CODE" :> [id |-> "B36-1W", req |-> "S", field_type |-> "A/N", num_chars |-> 2, start |-> 304, end |-> 305])
   @@ ("PATIENT TELEPHONE NUMBER QUALIFIER" :> [id |-> "629-SH", req |-> "S", field_type |-> "A/N", num_chars |-> 2, start |-> 306, end |-> 307])
   @@ ("PATIENT TELEPHONE NUMBER" :> [id |-> "732-TB", req |-> "S", field_type |-> "N", num_chars |-> 10, start |-> 308, end |-> 317])
   @@ ("PATIENT TELEPHONE NUMBER Extn" :> [id |-> "B10-8A", req |-> "S", field_type |-> "N", num_chars |-> 8, start |-> 318, end |-> 325])
   @@ ("PATIENT E-MAIL ADDRESS" :> [id |-> "350-HN", req |-> "S", field_type |-> "A/N", num_chars |-> 80, start |-> 326, end |-> 405])
   @@ ("DATE OF BIRTH" :> [id |-> "304-C4", req |-> "M", field_type |-> "N", num_chars |-> 8, start |-> 406, end |-> 413])
   @@ ("PATIENT GENDER CODE" :> [id |-> "305-C5", req |-> "M", field_type |-> "N", num_chars |-> 1, start |-> 414, end |-> 414])
   @@ ("PREGNANCY INDICATOR" :> [id |-> "335-2C", req |-> "S", field_type |-> "A/N", num_chars |-> 1, start |-> 415, end |-> 415])
   @@ ("SMOKER/NON-SMOKER CODE" :> [id |-> "334-1C", req |-> "S", field_type |-> "A/N", num_chars |-> 1, start |-> 416, end |-> 416])
   @@ ("EASY OPEN CAP INDICATOR" :> [id |-> "608-NF", req |-> "S", field_type |-> "A/N", num_chars |-> 1, start |-> 417, end |-> 417])
   @@ ("PRESCRIPTION/SERVICE REFERENCE NUMBER" :> [id |-> "402-D2", req |-> "M", field_type |-> "N", num_chars |-> 12, start |-> 418, end |-> 429])
   @@ ("DATE PRESCRIPTION WRITTEN" :> [id |-> "414-DE", req |-> "M", field_type |-> "N", num_chars |-> 8, start |-> 430, end |-> 437])
   @@ ("ORIGINALLY PRESCRIBED PRODUCT/SERVICE ID QUALIFIER" :> [id |-> "453-EJ", req |-> "M", field_type |-> "A/N", num_chars |-> 2, start |-> 438, end |-> 439])
   @@ ("ORIGINALLY PRESCRIBED PRODUCT/SERVICE CODE" :> [id |-> "445-EA", req |-> "M", field_type |-> "A/N", num_chars |-> 19, start |-> 440, end |-> 458])
   @@ ("COMPOUND CODE" :> [id |-> "406-D6", req |-> "M", field_type |-> "N", num_chars |-> 1, start |-> 459, end |-> 459])
   @@ ("PRESCRIBED DRUG DESCRIPTION" :> [id |-> "619-RW", req |-> "M", field_type |-> "A/N", num_chars |-> 60, start |-> 460, end |-> 519])
   @@ ("PRODUCT DOSAGE FORM" :> [id |-> "601-21", req |-> "M", field_type |-> "A/N", num_chars |-> 30, start |-> 520, end |-> 549])
   @@ ("PRODUCT STRENGTH" :> [id |-> "601-24", req |-> "M", field_type |-> "A/N", num_chars |-> 15, start |-> 550, end |-> 564])
   @@ ("DISPENSE AS WRITTEN (DAW)/PRODUCT SELECTION CODE" :> [id |-> "408-D8", req |-> "M", field_type |-> "A/N", num_chars |-> 1, start |-> 565, end |-> 565])
   @@ ("QUANTITY PRESCRIBED" :> [id |-> "460-ET", req |-> "M", field_type |-> "N", num_chars |-> 10, start |-> 566, end |-> 575])
   @@ ("NUMBER OF REFILLS AUTHORIZED" :> [id |-> "415-DF", req |-> "M", field_type |-> "N", num_chars |-> 2, start |-> 576, end |-> 577])
   @@ ("DAYS SUPPLY" :> [id |-> "405-D5", req |-> "M", field_type |-> "N", num_chars |-> 3, start |-> 578, end |-> 580])
   @@ ("PRODUCT/SERVICE ID QUALIFIER" :> [id |-> "426-E1", req |-> "M", field_type |-> "A/N", num_chars |-> 2, start |-> 581, end |-> 582])
   @@ ("PRODUCT/SERVICE ID" :> [id |-> "407-D7", req |-> "M", field_type |-> "A/N", num_chars |-> 19, start |-> 583, end |-> 601])
   @@ ("DRUG DESCRIPTION" :> [id |-> "516-FG", req |-> "M", field_type |-> "A/N", num_chars |-> 60, start |-> 602, end |-> 661])
   @@ ("LABEL DIRECTIONS" :> [id |-> "613-NM", req |-> "M", field_type |-> "A/N", num_chars |-> 200, start |-> 662, end |-> 861])
   @@ ("ORIGINAL DISPENSED DATE" :> [id |-> "617-RQ", req |-> "M", field_type |-> "N", num_chars |-> 8, start |-> 862, end |-> 869])
   @@ ("ORIGINAL DISPENSED QUANTITY" :> [id |-> "A44-ZL", req |-> "M", field_type |-> "N", num_chars |-> 10, start |-> 870, end |-> 879])
   @@ ("MOST RECENT DATE FILLED" :> [id |-> "614-NW", req |-> "M", field_type |-> "N", num_chars |-> 8, start |-> 880, end |-> 887])
   @@ ("QUANTITY DISPENSED TO DATE" :> [id |-> "623-SA", req |-> "M", field_type |-> "N", num_chars |-> 10, start |-> 888, end |-> 897])
   @@ ("REMAINING QUANTITY" :> [id |-> "625-SC", req |-> "M", field_type |-> "N", num_chars |-> 10, start |-> 898, end |-> 907])
   @@ ("NUMBER OF FILLS TO DATE" :> [id |-> "615-NY", req |-> "S", field_type |-> "N", num_chars |-> 2, start |-> 908, end |-> 909])
   @@ ("NUMBER OF FILLS REMAINING" :> [id |-> "616-PU", req |-> "M", field_type |-> "N", num_chars |-> 2, start |-> 910, end |-> 911])
   @@ ("FILL NUMBER" :> [id |-> "403-D3", req |-> "S", field_type |-> "N", num_chars |-> 2, start |-> 912, end |-> 913])
   @@ ("DISCONTINUE DATE" :> [id |-> "607-ND", req |-> "S", field_type |-> "N", num_chars |-> 8, start |-> 914, end |-> 921])
   @@ ("INACTIVE PRESCRIPTION INDICATOR" :> [id |-> "612-NK", req |-> "M", field_type |-> "A/N", num_chars |-> 1, start |-> 922, end |-> 922])
   @@ ("TRANSFER FLAG" :> [id |-> "631-SK", req |-> "S", field_type |-> "A/N", num_chars |-> 1, start |-> 923, end |-> 923])
   @@ ("PRESCRIBER LAST NAME" :> [id |-> "716-SY", req |-> "M", field_type |-> "A/N", num_chars |-> 35, start |-> 924, end |-> 958])
   @@ ("PRESCRIBER FIRST NAME" :> [id |-> "717-SX", req |-> "M", field_type |-> "A/N", num_chars |-> 35, start |-> 959, end |-> 993])
   @@ ("PRESCRIBER ADDRESS LINE 1" :> [id |-> "726-SR", req |-> "M", field_type |-> "A/N", num_chars |-> 40, start |-> 994, end |-> 1033])
   @@ ("PRESCRIBER ADDRESS LINE 2" :> [id |-> "727-SS", req |-> "S", field_type |-> "A/N", num_chars |-> 40, start |-> 1034, end |-> 1073])
   @@ ("PRESCRIBER CITY" :> [id |-> "728-SU", req |-> "M", field_type |-> "A/N", num_chars |-> 20, start |-> 1074, end |-> 1093])
   @@ ("PRESCRIBER STATE" :> [id |-> "729-TA", req |-> "M", field_type |-> "A/N", num_chars |-> 2, start |-> 1094, end |-> 1095])
   @@ ("PRESCRIBER ZIP/POSTAL CODE" :> [id |-> "730-TC", req |-> "M", field_type |-> "A/N", num_chars |-> 15, start |-> 1096, end |-> 1110])
   @@ ("PRESCRIBER ENTITY COUNTRY CODE" :> [id |-> "B36-1W", req |-> "S", field_type |-> "A/N", num_chars |-> 2, start |-> 1111, end |-> 1112])
   @@ ("PRESCRIBER TELEPHONE NUMBER QUALIFIER" :> [id |-> "629-SH", req |-> "M", field_type |-> "A/N", num_chars |-> 2, start |-> 1113, end |-> 1114])
   @@ ("PRESCRIBER TELEPHONE NUMBER" :> [id |-> "732-TB", req |-> "M", field_type |-> "N", num_chars |-> 10, start |-> 1115, end |-> 1124])
   @@ ("PRESCRIBER TELEPHONE NUMBER Extn" :> [id |-> "B10-8A", req |-> "S", field_type |-> "N", num_chars |-> 8, start |-> 1125, end |-> 1132])
   @@ ("PRESCRIBER ID (DEA)" :> [id |-> "411-DB", req |-> "S", field_type |-> "A/N", num_chars |-> 15, start |-> 1133, end |-> 1147])
   @@ ("PRESCRIBER ID QUALIFIER" :> [id |-> "466-EZ", req |-> "M", field_type |-> "A/N", num_chars |-> 2, start |-> 1148, end |-> 1149])
   @@ ("PRESCRIBER ID" :> [id |-> "411-DB", req |-> "M", field_type |-> "A/N", num_chars |-> 15, start |-> 1150, end |-> 1164])
   @@ ("ADDITIONAL MESSAGE INFORMATION" :> [id |-> "526-FQ", req |-> "S", field_type |-> "A/N", num_chars |-> 200, start |-> 1165, end |-> 1364])
   @@ ("PAYER ID QUALIFIER" :> [id |-> "568-J7", req |-> "S", field_type |-> "A/N", num_chars |-> 2, start |-> 1365, end |-> 1366])
   @@ ("PAYER ID" :> [id |-> "569-J8", req |-> "S", field_type |-> "A/N", num_chars |-> 10, start |-> 1367, end |-> 1376])
   @@ ("PROCESSOR CONTROL NUMBER" :> [id |-> "104-A4", req |-> "S", field_type |-> "A/N", num_chars |-> 10, start |-> 1377, end |-> 1386])
   @@ ("GROUP ID" :> [id |-> "301-C1", req |-> "S", field_type |-> "A/N", num_chars |-> 15, start |-> 1387, end |-> 1401])
   @@ ("PERSON CODE" :> [id |-> "303-C3", req |-> "S", field_type |-> "A/N", num_chars |-> 3, start |-> 1402, end |-> 1404])
   @@ ("PATIENT RELATIONSHIP CODE" :> [id |-> "306-C6", req |-> "S", field_type |-> "N", num_chars |-> 1, start |-> 1405, end |-> 1405])
   @@ ("FILLER" :> [id |-> "", req |-> "M", field_type |-> "A/N", num_chars |-> 195, start |-> 1406, end |-> 1600])
RX_FORMATS == ("20" :> RX_FORMAT_20) @@ ("33" :> RX_FORMAT_33)

\* the key of RX_FORMATS for the two characters record[2:4] of a header
VersionName(v) ==
  IF v = << "2", "0" >> THEN "20"
  ELSE IF v = << "3", "3" >> THEN "33"
  ELSE "other"

Raise(e) == [exc |-> e]

Return(o) == [exc |-> "", obj |-> o]

(***************************************************************************)
(* datetime.strptime(s, "%Y%m%d").date().  The format compiles to the      *)
(* regular expression                                                      *)
(*   (?P<Y>\d\d\d\d)(?P<m>1[0-2]|0[1-9]|[1-9])                             *)
(*   (?P<d>3[0-1]|[1-2]\d|0[1-9]|[1-9]| [1-9])                             *)
(* which is matched at the start of s (first alternative first, with       *)
(* backtracking); text left over after the match, or a day the month does  *)
(* not have, is a ValueError.                                              *)
(***************************************************************************)
MonthLen2(r) ==
  Len(r) >= 2 /\ (   (r[1] = "1" /\ r[2] \in {"0", "1", "2"})
                  \/ (r[1] = "0" /\ r[2] \in Digits19))

MonthLen1(r) == Len(r) >= 1 /\ r[1] \in Digits19

\* the number of characters the day group takes at the start of t, 0: none
DayLen(t) ==
  IF Len(t) >= 2 /\ t[1] = "3" /\ t[2] \in {"0", "1"} THEN 2
  ELSE IF Len(t) >= 2 /\ t[1] \in {"1", "2"} /\ t[2] \in Digits THEN 2
  ELSE IF Len(t) >= 2 /\ t[1] = "0" /\ t[2] \in Digits19 THEN 2
  ELSE IF Len(t) >= 1 /\ t[1] \in Digits19 THEN 1
  ELSE IF Len(t) >= 2 /\ t[1] = " " /\ t[2] \in Digits19 THEN 2
  ELSE 0

is_leap(y) == y % 4 = 0 /\ (y % 100 # 0 \/ y % 400 = 0)

DAYS_IN_MONTH == << 31, 28, 31, 30, 31, 30, 31, 31, 30, 31, 30, 31 >>

DAYS_BEFORE_MONTH ==
  << 0, 31, 59, 90, 120, 151, 181, 212, 243, 273, 304, 334 >>

days_in_month(y, m) == IF m = 2 /\ is_leap(y) THEN 29 ELSE DAYS_IN_MONTH[m]

days_before_year(y) ==
  (y - 1) * 365 + (y - 1) \div 4 - (y - 1) \div 100 + (y - 1) \div 400

days_before_month(y, m) ==
  DAYS_BEFORE_MONTH[m] + (IF m > 2 /\ is_leap(y) THEN 1 ELSE 0)

\* date(y, m, d).toordinal()
ymd2ord(y, m, d) == days_before_year(y) + days_before_month(y, m) + d

MAXORDINAL == 3652059

\* date.fromordinal(n0) as << year, month, day >>
ord2ymd(n0) ==
  LET a    == n0 - 1
      n400 == a \div 146097
      b    == a % 146097
      n100 == b \div 36524
      c    == b % 36524
      n4   == c \div 1461
      e    == c % 1461
      n1   == e \div 365
      n    == e % 365
      year == n400 * 400 + 1 + n100 * 100 + n4 * 4 + n1
  IN  IF n1 = 4 \/ n100 = 4
        THEN << year - 1, 12, 31 >>
        ELSE LET leapyear == n1 = 3 /\ (n4 # 24 \/ n100 = 3)
                 month0   == (n + 50) \div 32
                 prec0    == DAYS_BEFORE_MONTH[month0]
                               + (IF month0 > 2 /\ leapyear THEN 1 ELSE 0)
                 month    == IF prec0 > n THEN month0 - 1 ELSE month0
                 prec     == IF prec0 > n
                               THEN prec0 - (DAYS_IN_MONTH[month]
                                      + (IF month = 2 /\ leapyear
                                           THEN 1 ELSE 0))
                               ELSE prec0
             IN  << year, month, n - prec + 1 >>

\* the date, or ValueError
MakeDate(y, m, d) ==
  IF y >= 1 /\ d >= 1 /\ d <= days_in_month(y, m)
    THEN Return(<< y, m, d >>)
    ELSE Raise("ValueError")

strptime(s) ==
  IF ~(Len(s) >= 4 /\ \A i \in 1..4 : s[i] \in Digits)
    THEN Raise("ValueError")
    ELSE
      LET r    == SubSeq(s, 5, Len(s))
          mlen == IF MonthLen2(r) /\ DayLen(SubSeq(r, 3, Len(r))) > 0 THEN 2
                  ELSE IF MonthLen1(r) /\ DayLen(SubSeq(r, 2, Len(r))) > 0
                    THEN 1
                  ELSE 0
          dlen == DayLen(SubSeq(r, mlen + 1, Len(r)))
      IN  IF mlen = 0 \/ mlen + dlen # Len(r)
            THEN Raise("ValueError")
            ELSE MakeDate(DigitsVal(SubSeq(s, 1, 4)),
                          DigitsVal(SubSeq(r, 1, mlen)),
                          DigitsVal(strip(SubSeq(r, mlen + 1, Len(r)))))

(***************************************************************************)
(* int(v) of a decoded field value: an int is itself; a string is an       *)
(* optional sign and decimal digits, single underscores allowed between    *)
(* digits; anything else is a ValueError.                                  *)
(***************************************************************************)
IntLiteral(t) ==
  /\ t # << >>
  /\ t[1] \in Digits /\ t[Len(t)] \in Digits
  /\ \A i \in 1..Len(t) : t[i] \in Digits \cup {"_"}
  /\ \A i \in 1..(Len(t) - 1) : ~(t[i] = "_" /\ t[i + 1] = "_")

NoUnderscore(t) == SelectSeq(t, LAMBDA c : c # "_")

int(v) ==
  IF IsPyInt(v) THEN Return(DigitsVal(Tail(v)))
  ELSE LET s    == strip(v)
           sign == s # << >> /\ s[1] \in {"+", "-"}
           t    == IF sign THEN Tail(s) ELSE s
       IN  IF ~IntLiteral(t) THEN Raise("ValueError")
           ELSE IF sign /\ s[1] = "-"
             THEN Return(0 - DigitsVal(NoUnderscore(t)))
             ELSE Return(DigitsVal(NoUnderscore(t)))

(***************************************************************************)
(* The record classes.  A constructor or method returns Raise(e) or        *)
(* Return(the object after the call); a method that raises after it has    *)
(* assigned returns [exc |-> e, obj |-> the object as the raise left it].  *)
(***************************************************************************)
RecordLength == 1600

LineRecord(expected_prefix, raw_record) ==
  IF ~startswith(raw_record, expected_prefix)
    THEN Raise("AssertionError")
    ELSE Return([record |-> raw_record])

RAPrescriptionTransferHeaderRecord(raw_record) ==
  LET super == LineRecord(<< "R", "A" >>, raw_record)
  IN  IF super.exc # "" THEN super
      ELSE IF VersionName(Slice(raw_record, 2, 4)) \notin {"20", "33"}
        THEN Raise("AssertionError")
        ELSE Return([record |-> raw_record,
                     version_release_number |->
                       VersionName(Slice(raw_record, 2, 4))])

SRSendingReceivingPharmacyRecord(raw_record) ==
  LineRecord(<< "S", "R" >>, raw_record)

STSendingReceivingPharmacyTotalRecord(raw_record) ==
  LineRecord(<< "S", "T" >>, raw_record)

XTPrescriptionTransferTrailerRecord(raw_record) ==
  LineRecord(<< "X", "T" >>, raw_record)

\* read_fields taking start as a 0-based column: record[start : end]
read_fields_from_start(record, version_release_number) ==
  [field_name \in DOMAIN RX_FORMATS[version_release_number] |->
     With(strip(Slice(record,
                      RX_FORMATS[version_release_number][field_name].start,
                      RX_FORMATS[version_release_number][field_name].end)),
          LAMBDA field :
            IF /\ RX_FORMATS[version_release_number][field_name].field_type
                    = "N"
               /\ isdecimal(field)
              THEN PyInt(field)
              ELSE field)]

\* RXPrescriptionRecord.read_fields for a version RX_FORMATS has
read_fields(record, version_release_number) ==
  [field_name \in DOMAIN RX_FORMATS[version_release_number] |->
     With(strip(Slice(record,
                      RX_FORMATS[version_release_number][field_name].start - 1,
                      RX_FORMATS[version_release_number][field_name].end)),
          LAMBDA field :
            IF /\ RX_FORMATS[version_release_number][field_name].field_type
                    = "N"
               /\ isdecimal(field)
              THEN PyInt(field)
              ELSE field)]

FALLBACK_DATE == << 2050, 1, 1 >>

FALLBACK_DAYS_SUPPLY == 30

\* the argument of timedelta(days=...)
days_offset(days_supply) == days_supply - 7 - (days_supply % 7)

\* date + timedelta(days): the date, or OverflowError outside 0001..9999
date_add(d, days) ==
  LET o == ymd2ord(d[1], d[2], d[3]) + days
  IN  IF 0 < o /\ o <= MAXORDINAL THEN Return(ord2ymd(o))
                                  ELSE Raise("OverflowError")

most_recent_date_filled(fields) ==
  LET parsed == strptime(PyStr(fields["MOST RECENT DATE FILLED"]))
  IN  IF parsed.exc = "ValueError" THEN FALLBACK_DATE ELSE parsed.obj

days_supply(fields) ==
  LET parsed == int(fields["DAYS SUPPLY"])
  IN  IF parsed.exc = "ValueError" THEN FALLBACK_DAYS_SUPPLY ELSE parsed.obj

RXPrescriptionRecord(raw_record, version_release_number) ==
  IF LineRecord(<< "R", "X" >>, raw_record).exc # ""
    THEN LineRecord(<< "R", "X" >>, raw_record)
  ELSE IF version_release_number \notin DOMAIN RX_FORMATS
    THEN Raise("KeyError")
  ELSE
    With(read_fields(raw_record, version_release_number), LAMBDA fields :
      With(date_add(most_recent_date_filled(fields),
                    days_offset(days_supply(fields))), LAMBDA needs_by_date :
        IF needs_by_date.exc # "" THEN needs_by_date
        ELSE Return([record |-> raw_record,
                     version_release_number |-> version_release_number,
                     fields |-> fields,
                     needs_by_date |-> needs_by_date.obj])))

\* set_field keeping the value as it was passed in self.fields
set_field_untrimmed(self, field_name, value) ==
  IF \/ self.version_release_number \notin DOMAIN RX_FORMATS
     \/ field_name \notin DOMAIN RX_FORMATS[self.version_release_number]
    THEN [exc |-> "KeyError", obj |-> self]
  ELSE
    LET entry == RX_FORMATS[self.version_release_number][field_name]
        field == strip(value)
        padded_value == ljust(field, entry.num_chars)
        after == [self EXCEPT
                    !.fields = [@ EXCEPT ![field_name] = value],
                    !.record = Slice(@, 0, entry.start - 1) \o padded_value
                                 \o SliceFrom(@, entry.end)]
    IN  IF entry.field_type # "A/N"
          THEN [exc |-> "AssertionError", obj |-> self]
        ELSE IF ~(entry.num_chars >= Len(field))
          THEN [exc |-> "AssertionError", obj |-> self]
        ELSE IF Len(after.record) # RecordLength
          THEN [exc |-> "AssertionError", obj |-> after]
        ELSE Return(after)

\* set_field writing one column to the right of the columns of the field
set_field_shifted(self, field_name, value) ==
  IF \/ self.version_release_number \notin DOMAIN RX_FORMATS
     \/ field_name \notin DOMAIN RX_FORMATS[self.version_release_number]
    THEN [exc |-> "KeyError", obj |-> self]
  ELSE
    LET entry == RX_FORMATS[self.version_release_number][field_name]
        field == strip(value)
        padded_value == ljust(field, entry.num_chars)
        after == [self EXCEPT
                    !.fields = [@ EXCEPT ![field_name] = field],
                    !.record = Slice(@, 0, entry.start) \o padded_value
                                 \o SliceFrom(@, entry.end + 1)]
    IN  IF entry.field_type # "A/N"
          THEN [exc |-> "AssertionError", obj |-> self]
        ELSE IF ~(entry.num_chars >= Len(field))
          THEN [exc |-> "AssertionError", obj |-> self]
        ELSE IF Len(after.record) # RecordLength
          THEN [exc |-> "AssertionError", obj |-> after]
        ELSE Return(after)

\* set_field assigning fields and record before its two first assertions
set_field_assign_first(self, field_name, value) ==
  IF \/ self.version_release_number \notin DOMAIN RX_FORMATS
     \/ field_name \notin DOMAIN RX_FORMATS[self.version_release_number]
    THEN [exc |-> "KeyError", obj |-> self]
  ELSE
    LET entry == RX_FORMATS[self.version_release_number][field_name]
        field == strip(value)
        padded_value == ljust(field, entry.num_chars)
        after == [self EXCEPT
                    !.fields = [@ EXCEPT ![field_name] = field],
                    !.record = Slice(@, 0, entry.start - 1) \o padded_value
                                 \o SliceFrom(@, entry.end)]
    IN  IF entry.field_type # "A/N"
          THEN [exc |-> "AssertionError", obj |-> after]
        ELSE IF ~(entry.num_chars >= Len(field))
          THEN [exc |-> "AssertionError", obj |-> after]
        ELSE IF Len(after.record) # RecordLength
          THEN [exc |-> "AssertionError", obj |-> after]
        ELSE Return(after)

set_field(self, field_name, value) ==
  IF \/ self.version_release_number \notin DOMAIN RX_FORMATS
     \/ field_name \notin DOMAIN RX_FORMATS[self.version_release_number]
    THEN [exc |-> "KeyError", obj |-> self]
  ELSE
    LET entry == RX_FORMATS[self.version_release_number][field_name]
        field == strip(value)
        padded_value == ljust(field, entry.num_chars)
        after == [self EXCEPT
                    !.fields = [@ EXCEPT ![field_name] = field],
                    !.record = Slice(@, 0, entry.start - 1) \o padded_value
                                 \o SliceFrom(@, entry.end)]
    IN  IF entry.field_type # "A/N"
          THEN [exc |-> "AssertionError", obj |-> self]
        ELSE IF ~(entry.num_chars >= Len(field))
          THEN [exc |-> "AssertionError", obj |-> self]
        ELSE IF Len(after.record) # RecordLength
          THEN [exc |-> "AssertionError", obj |-> after]
        ELSE Return(after)

update_subtotal(self, num) ==
  [self EXCEPT !.record = Slice(@, 0, 71) \o ZeroPad(num, 8)
                            \o SliceFrom(@, 79)]

update_total(self, num) ==
  [self EXCEPT !.record = Slice(@, 0, 9) \o ZeroPad(num, 10)
                            \o SliceFrom(@, 19)]

(***************************************************************************)
(* ORTF                                                                    *)
(***************************************************************************)
\* ORTF.__init__
ORTF == [ra |-> None, sr |-> None, rxs |-> << >>, st |-> None, xt |-> None]

\* "".join([line[0:2] for line in lines])
RECURSIVE all_records_prefixes_str(_)
all_records_prefixes_str(lines) ==
  IF lines = << >> THEN << >>
  ELSE Slice(Head(lines), 0, 2) \o all_records_prefixes_str(Tail(lines))

\* re.compile("RASR(RX)+STXT").match(s) is not None: text may follow
records_prefixes_match(s) ==
  \E n \in 10..Len(s) :
    /\ n % 2 = 0
    /\ SubSeq(s, 1, 4) = << "R", "A", "S", "R" >>
    /\ SubSeq(s, n - 3, n) = << "S", "T", "X", "T" >>
    /\ \A k \in 3..((n \div 2) - 2) : s[2 * k - 1] = "R" /\ s[2 * k] = "X"

\* re.compile("RASR(RX)+STXT").fullmatch(s) is not None
records_prefixes_pattern(s) ==
  /\ Len(s) >= 10 /\ Len(s) % 2 = 0
  /\ SubSeq(s, 1, 4) = << "R", "A", "S", "R" >>
  /\ SubSeq(s, Len(s) - 3, Len(s)) = << "S", "T", "X", "T" >>
  /\ \A k \in 3..((Len(s) \div 2) - 2) :
        s[2 * k - 1] = "R" /\ s[2 * k] = "X"

\* the loop of from_records over lines[2 : len(lines) - 2]: the records
\* appended to self.rxs before the first constructor that raises, if any
RECURSIVE rxs_loop(_, _, _, _)
rxs_loop(lines, i, version, rxs) ==
  IF i > Len(lines) - 2 THEN Return(rxs)
  ELSE With(RXPrescriptionRecord(lines[i], version), LAMBDA rx :
         IF rx.exc # "" THEN [exc |-> rx.exc, obj |-> rxs]
         ELSE rxs_loop(lines, i + 1, version, Append(rxs, rx.obj)))

from_records(self, lines) ==
  IF ~records_prefixes_pattern(all_records_prefixes_str(lines))
    THEN [exc |-> "AssertionError", obj |-> self]
  ELSE
    LET ra == RAPrescriptionTransferHeaderRecord(lines[1])
        sr == SRSendingReceivingPharmacyRecord(lines[2])
        st == STSendingReceivingPharmacyTotalRecord(lines[Len(lines) - 1])
        xt == XTPrescriptionTransferTrailerRecord(lines[Len(lines)])
    IN  IF ra.exc # "" THEN [exc |-> ra.exc, obj |-> self]
        ELSE IF sr.exc # ""
          THEN [exc |-> sr.exc, obj |-> [self EXCEPT !.ra = ra.obj]]
        ELSE
          With(rxs_loop(lines, 3, ra.obj.version_release_number, << >>),
               LAMBDA rxs :
            LET s3 == [self EXCEPT !.ra = ra.obj, !.sr = sr.obj,
                                   !.rxs = rxs.obj]
            IN  IF rxs.exc # "" THEN [exc |-> rxs.exc, obj |-> s3]
                ELSE IF st.exc # "" THEN [exc |-> st.exc, obj |-> s3]
                ELSE IF xt.exc # ""
                  THEN [exc |-> xt.exc, obj |-> [s3 EXCEPT !.st = st.obj]]
                ELSE Return([s3 EXCEPT !.st = st.obj, !.xt = xt.obj]))

\* ORTF.deep_copy_no_rxs: its first statement calls ORTFRecord, a name the
\* module does not define, so the call raises NameError before any copy
deep_copy_no_rxs(self) == Raise("NameError")

set_rxs(self, rxs) ==
  LET s1 == [self EXCEPT !.rxs = rxs]
  IN  IF self.st = None THEN [exc |-> "AttributeError", obj |-> s1]
      ELSE
        LET s2 == [s1 EXCEPT !.st = update_subtotal(@, Len(rxs) + 2)]
        IN  IF self.xt = None THEN [exc |-> "AttributeError", obj |-> s2]
            ELSE Return([s2 EXCEPT !.xt = update_total(@, Len(rxs) + 4)])

\* str(record): the buffer of a record, "None" for None
record_str(r) == IF r = None THEN << "N", "o", "n", "e" >> ELSE r.record

\* "\r\n".join(parts)
RECURSIVE join_crlf(_)
join_crlf(parts) ==
  IF parts = << >> THEN << >>
  ELSE IF Len(parts) = 1 THEN parts[1]
  ELSE parts[1] \o << "\r", "\n" >> \o join_crlf(Tail(parts))

\* the records with the subtotal record before the detail records
records_subtotal_first(self) ==
  << self.ra, self.sr, self.st >> \o self.rxs \o << self.xt >>

\* ORTF.__str__: the records in the order they are serialized
records(self) == << self.ra, self.sr >> \o self.rxs \o << self.st, self.xt >>

ORTF_str(self) ==
  join_crlf([i \in 1..Len(records(self)) |-> record_str(records(self)[i])])

(***************************************************************************)
(* Inputs.  Lines are named; a call is recorded with the names of the      *)
(* lines it was given.                                                     *)
(***************************************************************************)
\* text written over line from the 1-based column col on
Overlay(line, col, text) ==
  SubSeq(line, 1, col - 1) \o text \o SubSeq(line, col + Len(text), Len(line))

\* a line of n characters: head, then fill
MkLine(head, fill, n) ==
  [i \in 1..n |-> IF i <= Len(head) THEN head[i] ELSE fill]

\* a detail line of RecordLength characters with the two fields that
\* needs_by_date reads, at the columns of the version
RxLine(version, fill, date, days) ==
  Overlay(Overlay(MkLine(<< "R", "X" >>, fill, RecordLength),
                  RX_FORMATS[version]["MOST RECENT DATE FILLED"].start, date),
          RX_FORMATS[version]["DAYS SUPPLY"].start, days)

Chars(n, c) == Repeat(c, n)

Date20210101 == << "2", "0", "2", "1", "0", "1", "0", "1" >>

Date99991231 == << "9", "9", "9", "9", "1", "2", "3", "1" >>

Days30 == << "3", "0", " " >>

Lines ==
     ("RA20" :> MkLine(<< "R", "A", "2", "0" >>, "h", RecordLength))
  @@ ("RA33" :> MkLine(<< "R", "A", "3", "3" >>, "h", RecordLength))
  @@ ("RA99" :> MkLine(<< "R", "A", "9", "9" >>, "h", RecordLength))
  @@ ("SR"   :> MkLine(<< "S", "R" >>, "p", RecordLength))
  @@ ("RXa"  :> RxLine("20", "a", Date20210101, Days30))
  @@ ("RXb"  :> RxLine("33", " ", Date20210101, Days30))
  @@ ("RXo"  :> RxLine("20", "a", Date99991231, Days30))
  @@ ("RXs"  :> << "R", "X" >>)
  @@ ("RXl"  :> MkLine(<< "R", "X" >>, "a", RecordLength) \o << "\n" >>)
  @@ ("ST"   :> MkLine(<< "S", "T" >>, "s", RecordLength))
  @@ ("XT"   :> MkLine(<< "X", "T" >>, "t", RecordLength))
  @@ ("st"   :> MkLine(<< "S", "T" >>, "s", 12))
  @@ ("xt"   :> MkLine(<< "X", "T" >>, "t", 12))
  @@ ("R"    :> << "R" >>)
  @@ ("AS"   :> << "A", "S" >>)
  @@ ("S"    :> << "S" >>)
  @@ ("RR"   :> << "R", "R" >>)
  @@ ("XS"   :> << "X", "S" >>)
  @@ ("TX"   :> << "T", "X" >>)
  @@ ("T"    :> << "T" >>)

MaxLines == 6

MaxRxs == 2

MaxOps == 3

MaxSetFields == 2

\* the sequences over S of length at most n
SeqsUpTo(S, n) == UNION {[1..k -> S] : k \in 0..n}

LinesOf(ids) == [i \in 1..Len(ids) |-> Lines[ids[i]]]

WellFormed == {"RA20", "SR", "RXa", "ST", "XT"}

\* documents of both versions, and line sequences with a repeated, missing
\* or extra record, an unknown version, short lines, lines of fewer than
\* two characters, and a detail record whose needs_by_date overflows
Curated ==
  { << "RA20", "SR", "RXa", "ST", "XT" >>,
    << "RA20", "SR", "RXa", "RXa", "ST", "XT" >>,
    << "RA33", "SR", "RXb", "ST", "XT" >>,
    << "RA20", "SR", "SR", "RXa", "ST", "XT" >>,
    << "RA20", "SR", "ST", "XT" >>,
    << "RA20", "SR", "RXa", "ST", "XT", "XT" >>,
    << "RA99", "SR", "RXa", "ST", "XT" >>,
    << "RA20", "SR", "RXa", "st", "xt" >>,
    << "R", "AS", "R", "RXa", "ST", "XT" >>,
    << "RA33", "S", "RR", "XS", "TX", "T" >>,
    << "RA20", "SR", "RXa", "RXo", "ST", "XT" >>,
    << >> }

\* every arrangement of up to MaxLines well-formed lines, and Curated
Documents == SeqsUpTo(WellFormed, MaxLines) \cup Curated

\* the field names and values set_field is called with
FieldNames ==
  { "RECORD TYPE", "CARDHOLDER ID", "PATIENT RESIDENCE",
    "PATIENT ENTITY COUNTRY CODE", "FILLER", "NO SUCH FIELD" }

Values ==
  { << >>, << " ", "Q", "\t" >>, << "Z", "Z", "Z" >>, Chars(21, "W") }

DocFieldNames == {"RECORD TYPE", "PATIENT STATE", "DAYS SUPPLY"}

DocValues == { << "Z", "Z" >>, << "Z", "Z", "Z" >> }

\* the arguments of update_subtotal and update_total
Nums == {7, 100000000}

Range(s) == {s[i] : i \in 1..Len(s)}

\* the detail records a caller passes to set_rxs: records of the document
\* and a newly constructed one
RxPool(self) ==
  Range(self.rxs) \cup {RXPrescriptionRecord(Lines["RXa"], "20").obj}

VARIABLES doc, rx, call, returned, nops

vars == << doc, rx, call, returned, nops >>

\* a new ORTF(); no detail record has been constructed on its own yet
Init ==
  /\ doc = ORTF
  /\ rx = None
  /\ call = [op |-> "__init__", exc |-> ""]
  /\ returned = None
  /\ nops = 0

FromRecordsOf(S) ==
  /\ \E ids \in S :
       \E lines \in {LinesOf(ids)} : \E res \in {from_records(doc, lines)} :
           /\ doc' = res.obj
           /\ call' = [op |-> "from_records", exc |-> res.exc, lines |-> ids]
  /\ returned' = None
  /\ nops' = nops + 1
  /\ UNCHANGED rx

FromRecords == nops < MaxOps /\ FromRecordsOf(Curated)

SetRxs ==
  /\ nops < MaxOps
  /\ \E rxs \in SeqsUpTo(RxPool(doc), MaxRxs) :
       \E res \in {set_rxs(doc, rxs)} :
           /\ doc' = res.obj
           /\ call' = [op |-> "set_rxs", exc |-> res.exc, rxs |-> rxs]
  /\ returned' = None
  /\ nops' = nops + 1
  /\ UNCHANGED rx

\* doc.rxs[i].set_field(field_name, value)
SetField ==
  /\ nops < MaxOps
  /\ \E i \in 1..Len(doc.rxs), field_name \in DocFieldNames,
        value \in DocValues :
       \E res \in {set_field(doc.rxs[i], field_name, value)} :
           /\ doc' = [doc EXCEPT !.rxs[i] = res.obj]
           /\ call' = [op |-> "set_field", exc |-> res.exc, i |-> i,
                       field_name |-> field_name, value |-> value]
  /\ returned' = None
  /\ nops' = nops + 1
  /\ UNCHANGED rx

DeepCopyNoRxs ==
  /\ nops < MaxOps
  /\ \E res \in {deep_copy_no_rxs(doc)} :
         /\ returned' = IF res.exc = "" THEN res.obj ELSE None
         /\ call' = [op |-> "deep_copy_no_rxs", exc |-> res.exc]
  /\ nops' = nops + 1
  /\ UNCHANGED << doc, rx >>

\* doc.st.update_subtotal(num)
UpdateSubtotal ==
  /\ nops < MaxOps
  /\ doc.st # None
  /\ \E num \in Nums :
       /\ doc' = [doc EXCEPT !.st = update_subtotal(@, num)]
       /\ call' = [op |-> "update_subtotal", exc |-> "", num |-> num]
  /\ returned' = None
  /\ nops' = nops + 1
  /\ UNCHANGED rx

\* doc.xt.update_total(num)
UpdateTotal ==
  /\ nops < MaxOps
  /\ doc.xt # None
  /\ \E num \in Nums :
       /\ doc' = [doc EXCEPT !.xt = update_total(@, num)]
       /\ call' = [op |-> "update_total", exc |-> "", num |-> num]
  /\ returned' = None
  /\ nops' = nops + 1
  /\ UNCHANGED rx

Next ==
  \/ FromRecords
  \/ SetRxs
  \/ SetField
  \/ DeepCopyNoRxs
  \/ UpdateSubtotal
  \/ UpdateTotal

Spec == Init /\ [][Next]_vars

(***************************************************************************)
(* Assembly alone: the first from_records call on a new document is given  *)
(* any of Documents, a later one on a document that holds records any of   *)
(* Curated.                                                                *)
(***************************************************************************)
Assemble == call.op = "__init__" /\ FromRecordsOf(Documents)

Reassemble == nops < MaxOps /\ doc # ORTF /\ FromRecordsOf(Curated)

NextAssemble == Assemble \/ Reassemble

SpecAssemble == Init /\ [][NextAssemble]_vars

(***************************************************************************)
(* One detail record on its own: constructed once, then set_field.         *)
(***************************************************************************)
\* detail lines of 1600 characters, of 2, and of 1601 (a line read from a
\* file with its line end, as main() passes it)
RxIds == {"RXa", "RXb", "RXs", "RXl"}

Versions == {"20", "33", "10"}

NewRx ==
  /\ call.op = "__init__"
  /\ \E id \in RxIds, version \in Versions :
       \E res \in {RXPrescriptionRecord(Lines[id], version)} :
         /\ rx' = IF res.exc = "" THEN res.obj ELSE None
         /\ call' = [op |-> "RXPrescriptionRecord", exc |-> res.exc,
                     line |-> id, version |-> version]
  /\ UNCHANGED << doc, returned, nops >>

\* rx.set_field(field_name, value)
RxSetField ==
  /\ rx # None
  /\ nops < MaxSetFields
  /\ \E field_name \in FieldNames, value \in Values :
       \E res \in {set_field(rx, field_name, value)} :
         /\ rx' = res.obj
         /\ call' = [op |-> "set_field", exc |-> res.exc,
                     field_name |-> field_name, value |-> value]
  /\ nops' = nops + 1
  /\ UNCHANGED << doc, returned >>

NextRx == NewRx \/ RxSetField

SpecRx == Init /\ [][NextRx]_vars

(***************************************************************************)
(* The construction of a detail record from lines that differ in the two   *)
(* fields needs_by_date is derived from.                                   *)
(***************************************************************************)
Dates ==
  { << "2", "0", "2", "1", "0", "1", "0", "1" >>,
    << "n", "o", "t", "a", "d", "a", "t", "e" >>,
    << " ", " ", " ", " ", " ", " ", " ", " " >>,
    << "2", "0", "2", "1", "0", "1", "1", " " >>,
    << " ", "2", "0", "2", "1", "0", "1", "1" >>,
    << "0", "2", "0", "2", "1", "0", "1", "1" >>,
    << "2", "0", "2", "1", "1", "1", " ", " " >>,
    << "2", "0", "2", "1", "1", "1", "1", " " >>,
    << "2", "0", "2", "1", "1", " ", "1", " " >>,
    << "2", "0", "2", "1", " ", "1", " ", "1" >>,
    << "0", "0", "0", "1", "0", "1", "0", "1" >>,
    << "0", "0", "0", "0", "0", "1", "0", "1" >>,
    << "2", "0", "2", "0", "0", "2", "2", "9" >>,
    << "2", "0", "2", "1", "0", "2", "2", "9" >>,
    << "2", "0", "2", "1", "1", "3", "0", "1" >>,
    << "2", "0", "2", "1", "1", "2", "3", "1" >>,
    << "9", "9", "9", "9", "1", "2", "3", "1" >> }

DaysSupplies ==
  { << "3", "0", " " >>, << "0", "3", "0" >>, << " ", " ", " " >>,
    << "a", "b", "c" >>, << "7", " ", " " >>, << "0", " ", " " >>,
    << "9", "9", "9" >>, << "-", "5", " " >>, << "+", "5", " " >>,
    << "1", "_", "0" >> }

NewDatedRx ==
  /\ call.op = "__init__"
  /\ \E version \in {"20", "33"}, date \in Dates, days \in DaysSupplies :
       \E res \in {RXPrescriptionRecord(RxLine(version, "a", date, days),
                                        version)} :
         /\ rx' = IF res.exc = "" THEN res.obj ELSE None
         /\ call' = [op |-> "RXPrescriptionRecord", exc |-> res.exc,
                     version |-> version, date |-> date, days |-> days]
  /\ UNCHANGED << doc, returned, nops >>

NextDate == NewDatedRx

SpecDate == Init /\ [][NextDate]_vars

(***************************************************************************)
(* Properties                                                              *)
(***************************************************************************)
RA == << "R", "A" >>

SR == << "S", "R" >>

RX == << "R", "X" >>

ST == << "S", "T" >>

XT == << "X", "T" >>

CRLF == << "\r", "\n" >>

\* the lines named by ids, each followed by CRLF except the last
RECURSIVE JoinedByCRLF(_)
JoinedByCRLF(ids) ==
  IF ids = << >> THEN << >>
  ELSE IF Len(ids) = 1 THEN Lines[ids[1]]
  ELSE Lines[ids[1]] \o CRLF \o JoinedByCRLF(Tail(ids))

\* C1: the serialization of a document that from_records has just
\* assembled is the input lines, in their order, joined by CRLF
C1_RoundTrip ==
  (call.op = "from_records" /\ call.exc = "")
    => ORTF_str(doc) = JoinedByCRLF(call.lines)

\* a document with two detail records has been assembled
C1_Witness ==
  /\ call.op = "from_records" /\ call.exc = ""
  /\ Len(call.lines) = 6 /\ Len(doc.rxs) = 2

\* the 1-based columns of the schema entry e
Columns(e) == e.start .. e.end

\* C2: a successful set_field on an alphanumeric field of a detail record
\* of 1600 characters changes no character outside the columns of the
\* field, and leaves in them the trimmed value followed by spaces up to the
\* declared length
C2_SetFieldFrame ==
  [][(/\ call'.op = "set_field" /\ call'.exc = ""
      /\ Len(rx.record) = RecordLength
      /\ RX_FORMATS[rx.version_release_number][call'.field_name].field_type
           = "A/N")
     => LET e == RX_FORMATS[rx.version_release_number][call'.field_name]
            v == strip(call'.value)
        IN  /\ Len(rx'.record) = RecordLength
            /\ \A p \in 1..RecordLength :
                 p \notin Columns(e) => rx'.record[p] = rx.record[p]
            /\ e.end - e.start + 1 = e.num_chars
            /\ \A k \in 1..e.num_chars :
                 rx'.record[e.start + k - 1]
                   = IF k <= Len(v) THEN v[k] ELSE " "]_vars

\* two different fields of one record of 1600 characters have been set
C2_Witness ==
  /\ call.op = "set_field" /\ call.exc = "" /\ nops = 2
  /\ Len(rx.record) = RecordLength
  /\ rx.fields["CARDHOLDER ID"] = << "Q" >>
  /\ rx.fields["FILLER"] = << "Z", "Z", "Z" >>

\* the cases in which set_field(field_name, value) on r must fail
UnknownField(r, field_name) ==
  field_name \notin DOMAIN RX_FORMATS[r.version_release_number]

WrongFieldClass(r, field_name) ==
  /\ ~UnknownField(r, field_name)
  /\ RX_FORMATS[r.version_release_number][field_name].field_type = "N"

ValueTooLong(r, field_name, value) ==
  /\ ~UnknownField(r, field_name)
  /\ Len(strip(value))
       > RX_FORMATS[r.version_release_number][field_name].num_chars

\* C3: set_field on a numeric field, with a value longer than the declared
\* length, or with a name the schema does not have, fails and leaves the
\* buffer and the decoded fields of the record as they were
C3_RejectedSetFieldAtomic ==
  [][(/\ call'.op = "set_field"
      /\ \/ UnknownField(rx, call'.field_name)
         \/ WrongFieldClass(rx, call'.field_name)
         \/ ValueTooLong(rx, call'.field_name, call'.value))
     => (call'.exc # "" /\ rx' = rx)]_vars

\* a value too long for its field was rejected on a record that an earlier
\* set_field has changed
C3_Witness ==
  /\ call.op = "set_field" /\ call.exc # "" /\ nops = 2
  /\ call.field_name = "CARDHOLDER ID" /\ Len(call.value) = 21
  /\ rx.fields["FILLER"] = << "Z", "Z", "Z" >>

\* the four fixed records of the document are present
Assembled(d) == d.ra # None /\ d.sr # None /\ d.st # None /\ d.xt # None

\* after is before, but for the columns first..last, which hold text
Overwritten(before, after, first, last, text) ==
  /\ Len(after) = Len(before)
  /\ Len(before) >= last
  /\ SubSeq(after, first, last) = text
  /\ \A p \in 1..Len(before) :
       (p < first \/ p > last) => after[p] = before[p]

\* C4: set_rxs with M detail records on an assembled document writes M + 2
\* in 8 digits into columns 72..79 of the subtotal record and M + 4 in 10
\* digits into columns 10..19 of the trailer record, and changes no other
\* character of the two records
C4_CountsAfterReplacement ==
  [][(call'.op = "set_rxs" /\ Assembled(doc))
     => /\ Overwritten(doc.st.record, doc'.st.record, 72, 79,
                       ZeroPad(Len(call'.rxs) + 2, 8))
        /\ Overwritten(doc.xt.record, doc'.xt.record, 10, 19,
                       ZeroPad(Len(call'.rxs) + 4, 10))]_vars

\* the first two characters of each of the records, in order
RecordPrefixes(rs) == [i \in 1..Len(rs) |-> Slice(record_str(rs[i]), 0, 2)]

\* ps is RA, SR, one or more RX, ST, XT
IsGrammar(ps) ==
  \E k \in 1..Len(ps) : ps = << RA, SR >> \o [i \in 1..k |-> RX] \o << ST, XT >>

RECURSIVE Concatenated(_)
Concatenated(ps) ==
  IF ps = << >> THEN << >> ELSE Head(ps) \o Concatenated(Tail(ps))

\* s is the text RASR, RX one or more times, STXT
IsGrammarText(s) ==
  \E k \in 1..Len(s) :
    s = RA \o SR \o Concatenated([i \in 1..k |-> RX]) \o ST \o XT

\* the lines named by ids, as records
AsRecords(ids) == [i \in 1..Len(ids) |-> [record |-> Lines[ids[i]]]]

\* C5: from_records succeeds only on lines whose prefixes are RA, SR, one
\* or more RX, ST, XT; and when the concatenation of the prefixes is not
\* of the grammar it fails and leaves the document as it was
C5_GrammarGate ==
  [][call'.op = "from_records"
     => \E ps \in {RecordPrefixes(AsRecords(call'.lines))} :
          /\ call'.exc = "" => IsGrammar(ps)
          /\ ~IsGrammarText(Concatenated(ps))
               => (call'.exc # "" /\ doc' = doc)]_vars

\* lines with a repeated SR were rejected by a document that holds records
C5_Witness ==
  /\ call.op = "from_records" /\ call.exc # ""
  /\ call.lines = << "RA20", "SR", "SR", "RXa", "ST", "XT" >>
  /\ Assembled(doc) /\ Len(doc.rxs) = 2

\* C6: set_rxs, set_field on a detail record and deep_copy_no_rxs keep the
\* grammar of an assembled document: when the prefixes of the records it
\* serializes are RA, SR, one or more RX, ST, XT before the call, they are
\* after it
C6_DocumentGrammar ==
  [][(/\ call'.op \in {"set_rxs", "set_field", "deep_copy_no_rxs"}
      /\ Assembled(doc)
      /\ IsGrammar(RecordPrefixes(records(doc))))
     => IsGrammar(RecordPrefixes(records(doc')))]_vars

\* C7: deep_copy_no_rxs on an assembled document returns a document with
\* the same header, pharmacy-identifier, subtotal and trailer records and
\* no detail records
C7_DuplicateWithoutDetails ==
  (call.op = "deep_copy_no_rxs" /\ Assembled(doc))
    => /\ call.exc = ""
       /\ returned # None
       /\ returned.ra = doc.ra /\ returned.sr = doc.sr
       /\ returned.st = doc.st /\ returned.xt = doc.xt
       /\ returned.rxs = << >>

\* s is eight digits that name a day of the calendar
IsYYYYMMDD(s) ==
  /\ Len(s) = 8 /\ \A i \in 1..8 : s[i] \in Digits
  /\ DigitsVal(SubSeq(s, 1, 4)) >= 1
  /\ DigitsVal(SubSeq(s, 5, 6)) \in 1..12
  /\ DigitsVal(SubSeq(s, 7, 8)) >= 1
  /\ DigitsVal(SubSeq(s, 7, 8))
       <= days_in_month(DigitsVal(SubSeq(s, 1, 4)), DigitsVal(SubSeq(s, 5, 6)))

BaseDate(s) ==
  IF IsYYYYMMDD(s)
    THEN << DigitsVal(SubSeq(s, 1, 4)), DigitsVal(SubSeq(s, 5, 6)),
            DigitsVal(SubSeq(s, 7, 8)) >>
    ELSE << 2050, 1, 1 >>

\* s is decimal digits, with a sign or without
IsInteger(s) ==
  /\ s # << >>
  /\ IF s[1] \in {"+", "-"} THEN isdecimal(Tail(s)) ELSE isdecimal(s)

DaysOf(s) ==
  IF ~IsInteger(s) THEN 30
  ELSE IF s[1] = "-" THEN 0 - DigitsVal(Tail(s))
  ELSE IF s[1] = "+" THEN DigitsVal(Tail(s))
  ELSE DigitsVal(s)

PlusDays(d, n) == ord2ymd(ymd2ord(d[1], d[2], d[3]) + n)

\* C8: needs_by_date of a constructed detail record is base + (d - 7 -
\* (d mod 7)) days, where base is the decoded MOST RECENT DATE FILLED read
\* as YYYYMMDD, 2050-01-01 if it is not such a date, and d is the decoded
\* DAYS SUPPLY as an integer, 30 if it is not one
C8_NeedsByDate ==
  (call.op = "RXPrescriptionRecord" /\ call.exc = "")
    => LET d == DaysOf(PyStr(rx.fields["DAYS SUPPLY"]))
       IN  rx.needs_by_date
             = PlusDays(BaseDate(PyStr(rx.fields["MOST RECENT DATE FILLED"])),
                        d - 7 - (d % 7))

\* the records the document holds
Held(d) == {r \in Range(records(d)) : r # None}

\* C9: the buffer of every record a constructor has accepted is 1600
\* characters long, also after set_field, update_subtotal and update_total
C9_RecordLength ==
  \A r \in Held(doc) : Len(r.record) = RecordLength

\* C10: a set_rxs call either replaces the detail records and writes both
\* counters, or fails and leaves the detail records and both counter
\* records as they were
C10_ReplacementAllOrNothing ==
  [][call'.op = "set_rxs"
     => \/ /\ call'.exc = ""
           /\ doc'.rxs = call'.rxs
           /\ Slice(doc'.st.record, 71, 79) = ZeroPad(Len(call'.rxs) + 2, 8)
           /\ Slice(doc'.xt.record, 9, 19) = ZeroPad(Len(call'.rxs) + 4, 10)
        \/ /\ call'.exc # ""
           /\ doc'.rxs = doc.rxs /\ doc'.st = doc.st /\ doc'.xt = doc.xt]_vars

\* C11: the construction of a detail record from a line that starts with
\* RX, with version 20 or 33, succeeds whatever the line holds in the
\* columns of MOST RECENT DATE FILLED and DAYS SUPPLY
C11_ConstructionNeverFails ==
  (/\ call.op = "RXPrescriptionRecord"
   /\ call.version \in {"20", "33"}
   /\ startswith(RxLine(call.version, "a", call.date, call.days), RX))
    => call.exc = ""

\* v is the integer that the decimal digits t write: t is v's digits after
\* any number of zeros
IsIntegerOf(v, t) ==
  /\ IsPyInt(v)
  /\ (PyStr(v) = << "0" >> \/ PyStr(v)[1] # "0")
  /\ \E k \in 0..Len(t) : t = [i \in 1..k |-> "0"] \o PyStr(v)

\* t is one or more decimal digits
IsDecimalDigits(t) == t # << >> /\ \A i \in 1..Len(t) : t[i] \in Digits

\* the fields of r are decoded from its buffer: each is the trimmed text of
\* its columns, an integer exactly when the field is numeric and Parses
\* holds of the text
Decoded(r, Parses(_)) ==
  \A f \in DOMAIN RX_FORMATS[r.version_release_number] :
    \E e \in {RX_FORMATS[r.version_release_number][f]} :
      \E t \in {strip(SubSeq(r.record, e.start, e.end))} :
        /\ e.end - e.start + 1 = e.num_chars
        /\ IsPyInt(r.fields[f]) <=> (e.field_type = "N" /\ Parses(t))
        /\ IF IsPyInt(r.fields[f]) THEN IsIntegerOf(r.fields[f], t)
                                   ELSE r.fields[f] = t

\* C12: every field of a detail record constructed from a line of 1600
\* characters is the trimmed text of its columns start..end, which are
\* num_chars columns; it is an integer exactly when the field is numeric
\* and the text is one or more decimal digits, and the text in any other
\* case
C12_DecodeRule ==
  (call.op = "RXPrescriptionRecord" /\ call.exc = ""
   /\ Len(rx.record) = RecordLength)
    => Decoded(rx, IsDecimalDigits)

\* a record with DAYS SUPPLY 030, decoded as the integer 30, and a blank
\* MOST RECENT DATE FILLED, decoded as the empty string
C12_Witness ==
  /\ call.op = "RXPrescriptionRecord" /\ call.exc = ""
  /\ call.days = << "0", "3", "0" >>
  /\ call.date = << " ", " ", " ", " ", " ", " ", " ", " " >>
  /\ rx.fields["DAYS SUPPLY"] = << "int", "3", "0" >>
  /\ rx.fields["MOST RECENT DATE FILLED"] = << >>

\* the statement of C12 as it was made: an integer exactly when the field
\* is numeric and the text parses as a base-10 integer, with a sign or
\* without
C12_DecodeRuleAsStated ==
  (call.op = "RXPrescriptionRecord" /\ call.exc = ""
   /\ Len(rx.record) = RecordLength)
    => Decoded(rx, IsInteger)

\* no two fields of the schema of version v share a column
DisjointColumns(v) ==
  \A f, g \in DOMAIN RX_FORMATS[v] :
    f # g => \/ RX_FORMATS[v][f].end < RX_FORMATS[v][g].start
             \/ RX_FORMATS[v][g].end < RX_FORMATS[v][f].start

\* C13: the decoded fields of a detail record of 1600 characters are what
\* read_fields gives for its buffer, after construction and after every
\* set_field call, accepted or rejected; the columns of the fields of its
\* schema are pairwise disjoint
C13_FieldsCoherent ==
  (rx # None /\ Len(rx.record) = RecordLength)
    => /\ rx.fields = read_fields(rx.record, rx.version_release_number)
       /\ call.op = "RXPrescriptionRecord"
            => DisjointColumns(rx.version_release_number)

\* a set_field was accepted, with a value that had to be trimmed, and a
\* later one was rejected
C13_Witness ==
  /\ call.op = "set_field" /\ call.exc # "" /\ nops = 2
  /\ call.field_name = "NO SUCH FIELD"
  /\ rx # None /\ Len(rx.record) = RecordLength
  /\ rx.fields["CARDHOLDER ID"] = << "Q" >>
  /\ SubSeq(rx.record, 3, 5) = << "Q", " ", " " >>

\* C14: a successful set_field on a detail record whose buffer starts with
\* RX leaves a buffer that starts with RX
C14_KeepsPrefix ==
  [][(/\ call'.op = "set_field" /\ call'.exc = ""
      /\ startswith(rx.record, RX))
     => startswith(rx'.record, RX)]_vars

====
